---- MODULE Spec2Model ----
(***************************************************************************)
(* Model of the OctaEEG driver node (timeflux_octaeeg/nodes/driver.py).    *)
(*                                                                         *)
(* Two threads: the worker thread that constructs the node, calls update() *)
(* repeatedly and finally terminate(); and the background thread running   *)
(* _loop().  The websocket, the host clock and the output port are the     *)
(* environment.                                                            *)
(***************************************************************************)
EXTENDS Integers, Sequences, FiniteSets, TLC

(* ----------------------------------------------------------------------- *)
(* Bounds of the model                                                     *)
(* ----------------------------------------------------------------------- *)

\* number of 32-byte blocks (complete or truncated) the device sends while
\* the worker thread drains concurrently; one more when it does not
MaxSamples == 3

(* ----------------------------------------------------------------------- *)
(* Program constants                                                       *)
(* ----------------------------------------------------------------------- *)

RATES == (250 :> 150) @@ (500 :> 149) @@ (1000 :> 148) @@ (2000 :> 147)
         @@ (4000 :> 146) @@ (8000 :> 145)

GAINS == (1 :> 0) @@ (2 :> 16) @@ (4 :> 32) @@ (6 :> 48) @@ (8 :> 64)
         @@ (12 :> 80) @@ (24 :> 96)

CHANNELS == 8

block_size == 32

\* Python's None (also stands for an empty list where only emptiness matters)
None == << >>

(* ----------------------------------------------------------------------- *)
(* Inputs                                                                  *)
(* ----------------------------------------------------------------------- *)

\* rate arguments: the table, the commented-out 16000, and two more
RateArgs == (DOMAIN RATES) \cup {16000, 0, 300}

\* gain arguments: the table and three values outside it
GainArgs == (DOMAIN GAINS) \cup {0, 3, 16}

EightNames == <<"Fp1", "Fp2", "C3", "C4", "P7", "P8", "O1", "O2">>

NamesArgs == {None, EightNames, <<"A", "B", "C">>}

\* readings of the host clock (microseconds), in increasing order
HostTimes == {1000, 1030}

\* device clock: either advances by DevStep or restarts at DevRestart
DevStep == 100

DevRestart == 50

VARIABLES
    args,         \* arguments of the constructor call
    pc,           \* position of the worker thread (constructor, update, terminate)
    error,        \* exception raised to the caller of the constructor
    connects,     \* number of executions of the connect statement
    sent,         \* commands sent on the websocket, in order
    rate, gain, debug, names, meta,   \* self.rate, self.gain, ...
    _rows, _timestamps,               \* the accumulation buffer
    _lock,        \* TRUE when the Lock is held
    _running,     \* the stop flag (TRUE = keep running)
    _thread,      \* self._thread, the value Thread(...).start() returned
    started,      \* the background thread has been started
    pcL,          \* position of the background thread
    delta, last,  \* drift state of _loop/_read
    data,         \* _read: the received message (byte sequence)
    block_index,  \* _read: loop variable
    timestamps, rows,   \* _read: the lists being built / returned
    clock,        \* host clock, now()
    dev,          \* device side: last device timestamp and counter generated
    budget,       \* device side: number of blocks it sends in this run
    decoded,      \* history: every sample decoded by _read, in order
    frames,       \* history: per decoded frame, its length and sample count
    output        \* history: the calls o.set(rows, timestamps, names, meta)

ctorVars == <<args, pc, error, connects, sent, rate, gain, debug, names, meta>>

bufVars == <<_rows, _timestamps, _lock>>

loopVars == <<pcL, delta, last, data, block_index, timestamps, rows>>

envVars == <<clock, dev, budget>>

histVars == <<decoded, frames, output>>

vars == <<ctorVars, bufVars, _running, _thread, started, loopVars, envVars, histVars>>

(* ----------------------------------------------------------------------- *)
(* Constructor                                                             *)
(* ----------------------------------------------------------------------- *)

Command(c, p) == [command |-> c, parameters |-> p]

\* the sequence with the rate code written to the last channel register
InitCommandsWrongCode(r, g) ==
    << Command("sdatac", << >>),
       Command("wreg", <<1, RATES[r]>>),
       Command("wreg", <<2, 192>>),
       Command("wreg", <<3, 236>>),
       Command("wreg", <<21, 32>>),
       Command("wreg", <<5, GAINS[g]>>),
       Command("wreg", <<6, GAINS[g]>>),
       Command("wreg", <<7, GAINS[g]>>),
       Command("wreg", <<8, GAINS[g]>>),
       Command("wreg", <<9, GAINS[g]>>),
       Command("wreg", <<10, GAINS[g]>>),
       Command("wreg", <<11, GAINS[g]>>),
       Command("wreg", <<12, RATES[r]>>),
       Command("status", << >>),
       Command("rdatac", << >>) >>

\* lines 75-89: the initialisation sequence of the ADS1299
InitCommands(r, g) ==
    << Command("sdatac", << >>),
       Command("wreg", <<1, RATES[r]>>),
       Command("wreg", <<2, 192>>),
       Command("wreg", <<3, 236>>),
       Command("wreg", <<21, 32>>),
       Command("wreg", <<5, GAINS[g]>>),
       Command("wreg", <<6, GAINS[g]>>),
       Command("wreg", <<7, GAINS[g]>>),
       Command("wreg", <<8, GAINS[g]>>),
       Command("wreg", <<9, GAINS[g]>>),
       Command("wreg", <<10, GAINS[g]>>),
       Command("wreg", <<11, GAINS[g]>>),
       Command("wreg", <<12, GAINS[g]>>),
       Command("status", << >>),
       Command("rdatac", << >>) >>

\* lines 43-46: if rate not in RATES: raise ValueError
ValidRate(r) == r \in DOMAIN RATES

\* a gain check that lets every value through
ValidGainAny(g) == TRUE

\* lines 47-50: if gain not in GAINS.keys(): raise ValueError
ValidGain(g) == g \in DOMAIN GAINS

\* list(range(1, CHANNELS + 1))
DefaultNames == [i \in 1..CHANNELS |-> i]

ChannelNames(n) == IF n # None /\ Len(n) = CHANNELS THEN n ELSE DefaultNames

\* names that leave the two debug columns out
ColumnNamesNoDebug(n, dbg) == ChannelNames(n)

ColumnNames(n, dbg) ==
    IF dbg THEN <<"TIMESTAMP", "COUNTER">> \o ChannelNames(n) ELSE ChannelNames(n)

\* __init__, lines 42-63: validation, then the configuration fields
Validate ==
    /\ pc = "validate"
    /\ IF ~ValidRate(args.rate) \/ ~ValidGain(args.gain)
       THEN /\ error' = "ValueError"
            /\ pc' = "failed"
            /\ UNCHANGED <<rate, gain, debug, names>>
       ELSE /\ rate' = args.rate
            /\ gain' = args.gain
            /\ debug' = args.debug
            /\ names' = ColumnNames(args.names, args.debug)
            /\ pc' = "connect"
            /\ UNCHANGED error
    /\ UNCHANGED <<args, connects, sent, meta>>
    /\ UNCHANGED <<bufVars, _running, _thread, started, loopVars, envVars, histVars>>

\* a constructor that tries the connection again after a failure
ConnectAgain ==
    /\ pc = "connect"
    /\ connects' = connects + 1
    /\ \E ok \in BOOLEAN :
          IF ok THEN pc' = "configure" /\ UNCHANGED error
                ELSE pc' = "connect" /\ error' = "WorkerInterrupt"
    /\ connects < 3
    /\ UNCHANGED <<args, sent, rate, gain, debug, names, meta>>
    /\ UNCHANGED <<bufVars, _running, _thread, started, loopVars, envVars, histVars>>

\* __init__, lines 65-71: one execution of the connect statement (name
\* resolution and websocket handshake); any failure becomes WorkerInterrupt
Connect ==
    /\ pc = "connect"
    /\ connects' = connects + 1
    /\ \E ok \in BOOLEAN :
          IF ok THEN pc' = "configure" /\ UNCHANGED error
                ELSE pc' = "failed" /\ error' = "WorkerInterrupt"
    /\ UNCHANGED <<args, sent, rate, gain, debug, names, meta>>
    /\ UNCHANGED <<bufVars, _running, _thread, started, loopVars, envVars, histVars>>

\* __init__, lines 75-92: the register writes and the meta
Configure ==
    /\ pc = "configure"
    /\ sent' = sent \o InitCommands(args.rate, args.gain)
    /\ meta' = [rate |-> args.rate]
    /\ pc' = "launch"
    /\ UNCHANGED <<args, error, connects, rate, gain, debug, names>>
    /\ UNCHANGED <<bufVars, _running, _thread, started, loopVars, envVars, histVars>>

\* __init__, lines 95-98: _reset(), the lock, the flag and the thread;
\* Thread.start() returns None, which is what self._thread receives
Launch ==
    /\ pc = "launch"
    /\ _rows' = << >>
    /\ _timestamps' = << >>
    /\ _lock' = FALSE
    /\ _running' = TRUE
    /\ started' = TRUE
    /\ _thread' = None
    /\ pcL' = "start"
    /\ pc' = "ready"
    /\ UNCHANGED <<args, error, connects, sent, rate, gain, debug, names, meta>>
    /\ UNCHANGED <<delta, last, data, block_index, timestamps, rows>>
    /\ UNCHANGED <<envVars, histVars>>

InitWith(Rs, Gs, Ns, blocks) ==
    /\ args \in [rate : Rs, gain : Gs, names : Ns, debug : BOOLEAN]
    /\ pc = "validate"
    /\ error = "none"
    /\ connects = 0
    /\ sent = << >>
    /\ rate = None /\ gain = None /\ debug = None /\ names = None /\ meta = None
    /\ _rows = << >> /\ _timestamps = << >> /\ _lock = FALSE
    /\ _running = FALSE
    /\ _thread = None
    /\ started = FALSE
    /\ pcL = "unborn"
    /\ delta = None /\ last = 0
    /\ data = None /\ block_index = 0 /\ timestamps = << >> /\ rows = << >>
    /\ clock = CHOOSE t \in HostTimes : \A u \in HostTimes : t <= u
    /\ dev = [ts |-> 0, counter |-> 0]
    /\ budget = blocks
    /\ decoded = << >> /\ frames = << >> /\ output = << >>

InitCtor == InitWith(RateArgs, GainArgs, NamesArgs, 0)

NextCtor == Validate \/ Connect \/ Configure \/ Launch

\* the constructor alone, over the whole rate and gain tables
SpecCtor == InitCtor /\ [][NextCtor]_vars

(* ----------------------------------------------------------------------- *)
(* Bytes                                                                   *)
(* ----------------------------------------------------------------------- *)

Min(a, b) == IF a < b THEN a ELSE b

Pow256(n) == IF n = 0 THEN 1 ELSE IF n = 1 THEN 256 ELSE IF n = 2 THEN 65536 ELSE 16777216

\* Python slice s[lo:hi] of a sequence (indices from 0, clipped to the length)
Slice(s, lo, hi) == SubSeq(s, lo + 1, Min(hi, Len(s)))

RECURSIVE FromBytesLittle(_)
\* int.from_bytes(b, byteorder="little")
FromBytesLittle(b) ==
    IF b = << >> THEN 0 ELSE Head(b) + 256 * FromBytesLittle(Tail(b))

RECURSIVE FromBytesBig(_)
FromBytesBig(b) ==
    IF b = << >> THEN 0 ELSE 256 * FromBytesBig(SubSeq(b, 1, Len(b) - 1)) + b[Len(b)]

\* a decoding that forgets the sign
FromBytesBigUnsigned(b) == FromBytesBig(b)

\* int.from_bytes(b, byteorder="big", signed=True), for at most 3 bytes
FromBytesBigSigned(b) ==
    LET u == FromBytesBig(b)
    IN  IF Len(b) > 0 /\ u >= Pow256(Len(b)) \div 2 THEN u - Pow256(Len(b)) ELSE u

\* raw value to uV: sample * (1e6 * ((4.5 / 8388607) / gain)), kept exact as
\* the raw value and the scale factor <<numerator, denominator>>
Convert(sample, g) == [sample |-> sample, scale |-> <<4500000, 8388607 * g>>]

(* ----------------------------------------------------------------------- *)
(* The device (environment): what arrives on the websocket                 *)
(* ----------------------------------------------------------------------- *)

\* little-endian unsigned encoding of v on n bytes
ToBytesLittle(v, n) == [i \in 1..n |-> (v \div Pow256(i - 1)) % 256]

\* big-endian two's-complement encoding of v on 3 bytes
ToBytesBigSigned(v) ==
    LET u == (v + 16777216) % 16777216
    IN  [i \in 1..3 |-> (u \div Pow256(3 - i)) % 256]

\* raw code the device puts in channel c (0-based) of the block numbered n
Code(n, c) ==
    CASE c = 2 -> 8388607
      [] c = 3 -> -8388608
      [] c = 4 -> -1
      [] c % 2 = 0 -> -n
      [] OTHER -> n

RECURSIVE ChannelBytes(_, _)
ChannelBytes(n, c) ==
    IF c = CHANNELS THEN << >> ELSE ToBytesBigSigned(Code(n, c)) \o ChannelBytes(n, c + 1)

\* one complete block: timestamp, counter, 8 channel codes
Block(ts, counter) ==
    ToBytesLittle(ts, 4) \o ToBytesLittle(counter, 4) \o ChannelBytes(counter, 0)

RECURSIVE DevSeqs(_, _)
\* the device timestamps of n successive blocks after timestamp t: the
\* device clock either advances or restarts
DevSeqs(t, n) ==
    IF n = 0 THEN {<< >>}
    ELSE UNION {{<<u>> \o s : s \in DevSeqs(u, n - 1)} : u \in {t + DevStep, DevRestart}}

RECURSIVE Blocks(_, _)
Blocks(tss, counter) ==
    IF tss = << >> THEN << >>
    ELSE Block(Head(tss), counter + 1) \o Blocks(Tail(tss), counter + 1)

\* number of bytes of the last block of a frame that arrive
TailLens == {block_size, 10}

Bytes(payload) == [type |-> "bytes", payload |-> payload]

Text(payload) == [type |-> "str", payload |-> payload]

(* ----------------------------------------------------------------------- *)
(* Background thread: _loop and _read                                      *)
(* ----------------------------------------------------------------------- *)

\* a lock that never makes a thread wait
AcquirableAlways(l) == TRUE

\* threading.Lock: acquire() proceeds only when the lock is not held
Acquirable(l) == ~l

\* new elements put in front of the list
ExtendInFront(list, more) == more \o list

\* list += list
Extend(list, more) == list \o more

\* a test of the emptiness alone
DecodableAnyType(d) == d.payload # << >>

\* line 126: if data and (type(data) is list or type(data) is bytes)
Decodable(d) == d.payload # << >> /\ d.type \in {"list", "bytes"}

\* range(0, stop, step)
Range(stop, step) == [k \in 1..((stop + step - 1) \div step) |-> (k - 1) * step]

\* a calibration made on the first sample only
NeedsCalibrationOnce(d, l, timestamp) == d = None

\* the comparison made strict
NeedsCalibrationStrict(d, l, timestamp) == d = None \/ l > timestamp

\* line 134: if self.delta == None or self.last >= timestamp
NeedsCalibration(d, l, timestamp) == d = None \/ l >= timestamp

\* lines 109-110
LoopStart ==
    /\ pcL = "start"
    /\ delta' = None
    /\ last' = 0
    /\ pcL' = "while"
    /\ UNCHANGED <<ctorVars, bufVars, _running, _thread, started>>
    /\ UNCHANGED <<data, block_index, timestamps, rows, envVars, histVars>>

\* line 111: while self._running
LoopTest ==
    /\ pcL = "while"
    /\ pcL' = IF _running THEN "recv" ELSE "done"
    /\ UNCHANGED <<ctorVars, bufVars, _running, _thread, started>>
    /\ UNCHANGED <<delta, last, data, block_index, timestamps, rows, envVars, histVars>>

\* a loop that takes an empty or undecodable message as the end of the stream
ReceivedOrStop(m) ==
    /\ timestamps' = << >>
    /\ rows' = << >>
    /\ block_index' = 0
    /\ IF Decodable(m) /\ Len(Range(Len(m.payload), block_size)) > 0
       THEN data' = m /\ pcL' = "block"
       ELSE data' = None /\ pcL' = "done"

\* lines 122-126 and the head of the for loop, given the message m
\* (a message that is not decoded makes _read return two empty lists, and
\* line 113 sends the loop back to line 111)
Received(m) ==
    /\ timestamps' = << >>
    /\ rows' = << >>
    /\ block_index' = 0
    /\ IF Decodable(m) /\ Len(Range(Len(m.payload), block_size)) > 0
       THEN data' = m /\ pcL' = "block"
       ELSE data' = None /\ pcL' = "while"

\* line 122: a binary message; the last block may be cut short
RecvFrame ==
    /\ pcL = "recv"
    /\ \E n \in 1..(budget - dev.counter) :
       \E tss \in DevSeqs(dev.ts, n) :
       \E tail \in TailLens :
          /\ Received(Bytes(SubSeq(Blocks(tss, dev.counter), 1, block_size * (n - 1) + tail)))
          /\ dev' = [ts |-> tss[n], counter |-> dev.counter + n]
    /\ UNCHANGED <<ctorVars, bufVars, _running, _thread, started>>
    /\ UNCHANGED <<delta, last, clock, budget, histVars>>

\* line 122: an empty message or a text message
RecvOther ==
    /\ pcL = "recv"
    /\ \E m \in {Bytes(<< >>), Text(<<111, 107>>)} : Received(m)
    /\ UNCHANGED <<ctorVars, bufVars, _running, _thread, started>>
    /\ UNCHANGED <<delta, last, envVars, histVars>>

\* line 122: recv() raises (connection closed, socket error); nothing in
\* _read or _loop catches it, so the thread ends
RecvRaises ==
    /\ pcL = "recv"
    /\ pcL' = "dead"
    /\ UNCHANGED <<ctorVars, bufVars, _running, _thread, started>>
    /\ UNCHANGED <<delta, last, data, block_index, timestamps, rows, envVars, histVars>>

\* lines 130-144: one iteration of the for loop
ReadBlock ==
    /\ pcL = "block"
    /\ LET block == Slice(data.payload, block_index, block_index + block_size)
           timestamp == FromBytesLittle(Slice(block, 0, 4))
           counter == FromBytesLittle(Slice(block, 4, 8))
           calibrate == NeedsCalibration(delta, last, timestamp)
           d == IF calibrate THEN <<clock - timestamp>> ELSE delta
           codes == [c \in 1..CHANNELS |->
                        FromBytesBigSigned(
                            Slice(block, 8 + (c - 1) * 3, 8 + (c - 1) * 3 + 3))]
           row == (IF debug THEN <<timestamp, counter>> ELSE << >>)
                  \o [c \in 1..CHANNELS |-> Convert(codes[c], gain)]
           r == Range(Len(data.payload), block_size)
           more == \E k \in DOMAIN r : r[k] = block_index + block_size
       IN  /\ delta' = d
           /\ last' = timestamp
           /\ rows' = Append(rows, row)
           /\ timestamps' = Append(timestamps, timestamp + d[1])
           /\ decoded' = Append(decoded, [row |-> row, timestamp |-> timestamp + d[1],
                                          device |-> timestamp, host |-> clock,
                                          delta |-> d[1], counter |-> counter])
           /\ IF more
              THEN block_index' = block_index + block_size /\ pcL' = "block"
              ELSE block_index' = block_index /\ pcL' = "return"
    /\ UNCHANGED <<ctorVars, bufVars, _running, _thread, started>>
    /\ UNCHANGED <<data, envVars, frames, output>>

\* line 145 and line 113: _read returns; if data
Return ==
    /\ pcL = "return"
    /\ pcL' = IF rows # << >> THEN "acquire" ELSE "while"
    /\ frames' = Append(frames, [len |-> Len(data.payload), n |-> Len(rows)])
    /\ data' = None
    /\ block_index' = 0
    /\ UNCHANGED <<ctorVars, bufVars, _running, _thread, started>>
    /\ UNCHANGED <<delta, last, timestamps, rows, envVars>>
    /\ UNCHANGED <<decoded, output>>

\* line 114
Acquire ==
    /\ pcL = "acquire"
    /\ Acquirable(_lock)
    /\ _lock' = TRUE
    /\ pcL' = "add_rows"
    /\ UNCHANGED <<ctorVars, _rows, _timestamps, _running, _thread, started>>
    /\ UNCHANGED <<delta, last, data, block_index, timestamps, rows, envVars, histVars>>

\* lines 115-116: += extends a list in place, so a batch of the output whose
\* lists are still the lists of the buffer receives what the buffer receives
Shared(out, f, more) ==
    [k \in DOMAIN out |->
        IF out[k].shared THEN [out[k] EXCEPT ![f] = Extend(@, more)] ELSE out[k]]

\* line 115
AddRows ==
    /\ pcL = "add_rows"
    /\ _rows' = Extend(_rows, rows)
    /\ output' = Shared(output, "rows", rows)
    /\ pcL' = "add_timestamps"
    /\ UNCHANGED <<ctorVars, _timestamps, _lock, _running, _thread, started>>
    /\ UNCHANGED <<delta, last, data, block_index, timestamps, rows, envVars>>
    /\ UNCHANGED <<decoded, frames>>

\* a loop that goes back to receive with the lock still held
AddTimestampsKeepsLock ==
    /\ pcL = "add_timestamps"
    /\ _timestamps' = Extend(_timestamps, timestamps)
    /\ pcL' = "while"
    /\ timestamps' = << >>
    /\ rows' = << >>
    /\ output' = Shared(output, "timestamps", timestamps)
    /\ UNCHANGED <<ctorVars, _rows, _lock, _running, _thread, started>>
    /\ UNCHANGED <<delta, last, data, block_index, envVars, decoded, frames>>

\* lines 116-117
AddTimestamps ==
    /\ pcL = "add_timestamps"
    /\ _timestamps' = Extend(_timestamps, timestamps)
    /\ output' = Shared(output, "timestamps", timestamps)
    /\ _lock' = FALSE
    /\ pcL' = "while"
    /\ timestamps' = << >>
    /\ rows' = << >>
    /\ UNCHANGED <<ctorVars, _rows, _running, _thread, started>>
    /\ UNCHANGED <<delta, last, data, block_index, envVars, decoded, frames>>

\* the host clock advances; now() is read only at line 136, so only the
\* advances that precede an iteration of the for loop are distinguished
Tick ==
    /\ pcL = "block"
    /\ \E t \in HostTimes : t > clock /\ clock' = t
    /\ UNCHANGED <<ctorVars, bufVars, _running, _thread, started, loopVars, dev, budget, histVars>>

(* ----------------------------------------------------------------------- *)
(* Worker thread: update and terminate                                     *)
(* ----------------------------------------------------------------------- *)

\* line 150
UpdateAcquire ==
    /\ pc = "ready"
    /\ Acquirable(_lock)
    /\ _lock' = TRUE
    /\ pc' = "update"
    /\ UNCHANGED <<args, error, connects, sent, rate, gain, debug, names, meta>>
    /\ UNCHANGED <<_rows, _timestamps, _running, _thread, started, loopVars, envVars, histVars>>

\* an update() that hands the buffer over and does not empty it
UpdateBodyKeeps ==
    /\ pc = "update"
    /\ IF _rows # << >>
       THEN output' = Append(output, [rows |-> _rows, timestamps |-> _timestamps,
                                      names |-> names, meta |-> meta,
                                      shared |-> TRUE])
       ELSE UNCHANGED output
    /\ _lock' = FALSE
    /\ pc' = "ready"
    /\ UNCHANGED <<args, error, connects, sent, rate, gain, debug, names, meta>>
    /\ UNCHANGED <<_rows, _timestamps>>
    /\ UNCHANGED <<_running, _thread, started, loopVars, envVars, decoded, frames>>

\* an emptying of the two lists in place: the lists handed out are emptied
\* with the buffer and remain the lists of the buffer
_clear(batch) ==
    IF batch.shared THEN [batch EXCEPT !.rows = << >>, !.timestamps = << >>]
    ELSE batch

\* lines 101-104, seen from a batch handed to the output: _reset binds two
\* new lists to the buffer, so the lists handed out keep their contents and
\* are no longer the lists of the buffer
_reset(batch) == [batch EXCEPT !.shared = FALSE]

\* lines 151-154: if self._rows: self.o.set(...); self._reset(); release
\* (o.set receives the two lists of the buffer themselves)
UpdateBody ==
    /\ pc = "update"
    /\ IF _rows # << >>
       THEN /\ output' = LET handed == Append(output,
                                          [rows |-> _rows, timestamps |-> _timestamps,
                                           names |-> names, meta |-> meta,
                                           shared |-> TRUE])
                         IN  [k \in DOMAIN handed |-> _reset(handed[k])]
            /\ _rows' = << >>
            /\ _timestamps' = << >>
       ELSE UNCHANGED <<output, _rows, _timestamps>>
    /\ _lock' = FALSE
    /\ pc' = "ready"
    /\ UNCHANGED <<args, error, connects, sent, rate, gain, debug, names, meta>>
    /\ UNCHANGED <<_running, _thread, started, loopVars, envVars, decoded, frames>>

\* line 152: o.set raises; the exception leaves update() past line 154
UpdateRaises ==
    /\ pc = "update"
    /\ _rows # << >>
    /\ pc' = "update_raised"
    /\ UNCHANGED <<args, error, connects, sent, rate, gain, debug, names, meta>>
    /\ UNCHANGED <<bufVars, _running, _thread, started, loopVars, envVars, histVars>>

\* Thread.is_alive() of the background thread
IsAlive == pcL \notin {"unborn", "done", "dead"}

\* lines 159-161: the flag, then
\* while self._thread and self._thread.is_alive(): sleep(0.001)
\* (sleep is not defined in the module: reaching it raises NameError)
terminate ==
    /\ pc \in {"ready", "update_raised"}
    /\ _running' = FALSE
    /\ pc' = IF _thread # None /\ IsAlive THEN "terminate_raised" ELSE "terminated"
    /\ UNCHANGED <<args, error, connects, sent, rate, gain, debug, names, meta>>
    /\ UNCHANGED <<bufVars, _thread, started, loopVars, envVars, histVars>>

\* the steps of the background thread that do not wait for the device
LoopNext ==
    \/ LoopStart \/ LoopTest
    \/ ReadBlock \/ Return \/ Acquire \/ AddRows \/ AddTimestamps

(* ----------------------------------------------------------------------- *)
(* Specifications                                                          *)
(* ----------------------------------------------------------------------- *)

\* the whole life of a node, over a few configurations
Init == InitWith({250, 16000}, {24}, {None}, MaxSamples)

Next ==
    \/ Validate \/ Connect \/ Configure \/ Launch
    \/ LoopStart \/ LoopTest \/ RecvFrame \/ RecvOther \/ RecvRaises
    \/ ReadBlock \/ Return \/ Acquire \/ AddRows \/ AddTimestamps
    \/ Tick
    \/ UpdateAcquire \/ UpdateBody \/ UpdateRaises
    \/ terminate

Spec == Init /\ [][Next]_vars

\* the acquisition alone: the node is constructed and the worker thread
\* calls neither update() nor terminate()
InitRead == InitWith({250, 16000}, {24}, {None}, MaxSamples + 1)

NextRead ==
    \/ Validate \/ Connect \/ Configure \/ Launch
    \/ LoopStart \/ LoopTest \/ RecvFrame \/ RecvOther \/ RecvRaises
    \/ ReadBlock \/ Return \/ Acquire \/ AddRows \/ AddTimestamps
    \/ Tick

SpecRead == InitRead /\ [][NextRead]_vars

\* the whole node without the debug columns
InitDrain == Init /\ ~args.debug

SpecDrain == InitDrain /\ [][Next]_vars

\* the whole node over every names argument, with a shorter acquisition
InitNames == InitWith({250}, {24}, NamesArgs, MaxSamples - 1)

SpecNames == InitNames /\ [][Next]_vars

(* ----------------------------------------------------------------------- *)
(* Properties                                                              *)
(* ----------------------------------------------------------------------- *)

RECURSIVE Flat(_, _)
\* the concatenation of field f of the records of a sequence
Flat(batches, f) ==
    IF batches = << >> THEN << >> ELSE Head(batches)[f] \o Flat(Tail(batches), f)

\* everything handed to the output so far, in drain order
Drained(f) == Flat(output, f)

\* what _read has built or returned and _loop has not yet appended
PendingRows == IF pcL \in {"block", "return", "acquire", "add_rows"} THEN rows ELSE << >>

PendingTimestamps ==
    IF pcL \in {"block", "return", "acquire", "add_rows", "add_timestamps"}
    THEN timestamps ELSE << >>

DecodedRows == [i \in 1..Len(decoded) |-> decoded[i].row]

DecodedTimestamps == [i \in 1..Len(decoded) |-> decoded[i].timestamp]

IsPrefix(s, t) == Len(s) <= Len(t) /\ \A i \in 1..Len(s) : s[i] = t[i]

\* C1: the batches handed to the output, concatenated in drain order, are a
\* prefix of the samples _read decoded, in arrival order (rows and
\* timestamps alike); and every decoded sample is in a drained batch, in the
\* buffer or on its way to the buffer, in that order: none is lost,
\* duplicated or reordered.
C1_DrainsArePrefixOfDecoded ==
    /\ IsPrefix(Drained("rows"), DecodedRows)
    /\ IsPrefix(Drained("timestamps"), DecodedTimestamps)
    /\ Drained("rows") \o _rows \o PendingRows = DecodedRows
    /\ Drained("timestamps") \o _timestamps \o PendingTimestamps = DecodedTimestamps

\* two drains found data, the first of them two samples, and three samples
\* went out in all
C1_Witness ==
    /\ Len(output) >= 2
    /\ Len(output[1].rows) >= 2
    /\ Len(Drained("rows")) >= 3

RECURSIVE FrameEnd(_)
\* number of samples decoded up to the end of the k-th frame
FrameEnd(k) == IF k = 0 THEN 0 ELSE FrameEnd(k - 1) + frames[k].n

FrameEnds == {FrameEnd(k) : k \in 0..Len(frames)}

\* the background thread is between acquire() and release()
LoopHolds == pcL \in {"add_rows", "add_timestamps"}

\* the worker thread is between acquire() and release()
WorkerHolds == pc = "update"

\* C2: a drain sees the buffer before or after an append, never in between:
\* every batch handed to the output has as many timestamps as rows and ends
\* where a frame ends, and the two threads never hold the lock together.
C2_NoTornDrain ==
    /\ \A k \in 1..Len(output) :
          /\ Len(output[k].rows) = Len(output[k].timestamps)
          /\ Len(Flat(SubSeq(output, 1, k), "rows")) \in FrameEnds
    /\ ~(LoopHolds /\ WorkerHolds)
    /\ (LoopHolds \/ WorkerHolds) => _lock

\* update() holds the lock over a non-empty buffer while the background
\* thread waits at acquire() with a decoded frame
C2_Witness ==
    /\ pc = "update"
    /\ pcL = "acquire"
    /\ _rows # << >>
    /\ rows # << >>

NonDecreasing(s) == \A i \in 1..Len(s) : \A j \in i..Len(s) : s[i] <= s[j]

\* C3: the calibrated timestamps of one processed frame, and of one drained
\* batch, are non-decreasing, whatever the device timestamps are.
C3_MonotoneTimestamps ==
    /\ NonDecreasing(timestamps)
    /\ \A k \in 1..Len(output) : NonDecreasing(output[k].timestamps)

\* C4: the offset is recomputed from the host clock on the first sample after
\* the loop started and on every sample whose device timestamp is not above
\* the previous one, and keeps its value on every other sample.
C4_RecalibrationPoints ==
    \A i \in 1..Len(decoded) :
       IF i = 1 \/ decoded[i].device <= decoded[i - 1].device
       THEN decoded[i].delta = decoded[i].host - decoded[i].device
       ELSE decoded[i].delta = decoded[i - 1].delta

\* device timestamps 100, 200, 50, 150: besides the first sample, the offset
\* changes at index 2 (the third sample) only
C4_Witness ==
    /\ Len(decoded) = 4
    /\ [i \in 1..4 |-> decoded[i].device] = <<100, 200, 50, 150>>
    /\ decoded[2].delta = decoded[1].delta
    /\ decoded[3].delta # decoded[2].delta
    /\ decoded[3].delta = decoded[3].host - 50
    /\ decoded[4].delta = decoded[3].delta

\* C5: a frame of length L yields floor(L / 32) samples.
C5_FloorOfLength ==
    \A k \in 1..Len(frames) : frames[k].n = frames[k].len \div block_size

\* C6: when terminate() has returned, the background thread has exited (so
\* nothing is appended to the buffer any more).
C6_TerminateWaits == pc = "terminated" => ~IsAlive

\* C7, as stated: the background thread stops only with the stop flag set;
\* no receive error stops it while the flag is unset.
C7_StopsOnlyOnFlag == (started /\ ~IsAlive) => ~_running

\* C7, amended: the background thread ends in two ways only: _loop returns
\* after reading the stop flag that terminate() set, or recv() raises and the
\* exception, which nothing catches, ends the thread (the flag may be unset);
\* an empty message, a text message or a frame with a short last block never
\* ends it.
C7_StopsOnFlagOrRecvError ==
    [][(IsAlive /\ ~IsAlive') =>
          \/ pcL = "while" /\ ~_running /\ pcL' = "done"
          \/ pcL = "recv" /\ pcL' = "dead" /\ UNCHANGED <<data, rows, timestamps, frames>>]_vars

\* a frame with a short last block was decoded and appended, and the thread
\* is back in recv() with the stop flag unset
C7_Witness ==
    /\ frames # << >>
    /\ frames[Len(frames)].len % block_size # 0
    /\ pcL = "recv"
    /\ _running
    /\ _rows # << >>

\* C8: with a rate or a gain outside the tables the constructor raises
\* ValueError before anything else happens: no connect, no command sent, no
\* thread started.
C8_ConfigErrorBeforeConnect ==
    (~(args.rate \in DOMAIN RATES) \/ ~(args.gain \in DOMAIN GAINS)) =>
        /\ connects = 0
        /\ sent = << >>
        /\ ~started /\ pcL = "unborn"
        /\ pc \in {"validate", "failed"}
        /\ pc = "failed" => error = "ValueError"

\* a valid rate with a gain outside the table has been refused
C8_Witness ==
    /\ args.rate \in DOMAIN RATES
    /\ args.gain \notin DOMAIN GAINS
    /\ pc = "failed"
    /\ error = "ValueError"

\* the values written to register reg by the commands sent so far
RegisterWrites(reg) ==
    {sent[i].parameters[2] :
       i \in {j \in 1..Len(sent) : sent[j].command = "wreg" /\ sent[j].parameters[1] = reg}}

\* C9: with a rate and a gain of the tables and a device that answers, the
\* constructor succeeds and writes RATES[rate] to register 0x01 and
\* GAINS[gain] to each of the registers 0x05..0x0C; with any other rate or
\* gain it fails; what happens is a function of (rate, gain).
C9_RegisterCodes ==
    LET valid == args.rate \in DOMAIN RATES /\ args.gain \in DOMAIN GAINS
    IN  /\ ~valid => pc \in {"validate", "failed"} /\ sent = << >>
        /\ (valid /\ pc = "failed") => error = "WorkerInterrupt"
        /\ (valid /\ pc \notin {"validate", "connect", "failed"}) => error = "none"
        /\ pc \in {"launch", "ready"} =>
              /\ valid
              /\ RegisterWrites(1) = {RATES[args.rate]}
              /\ \A reg \in 5..12 : RegisterWrites(reg) = {GAINS[args.gain]}
              /\ Len(sent) = 15
              /\ meta = [rate |-> args.rate]

\* rate 8000 and gain 12: the node is constructed, 0x91 went to register 0x01
\* and 0x50 to register 0x0C
C9_Witness ==
    /\ pc = "ready"
    /\ args.rate = 8000 /\ args.gain = 12
    /\ RegisterWrites(1) = {145}
    /\ RegisterWrites(12) = {80}

\* C10: when the connection fails the constructor raises WorkerInterrupt and
\* does not retry: the connect statement ran once, no command was sent and
\* the thread was not started.
C10_ConnectFailureAborts ==
    /\ connects <= 1
    /\ error = "WorkerInterrupt" =>
          /\ pc = "failed"
          /\ connects = 1
          /\ sent = << >>
          /\ ~started /\ pcL = "unborn"

\* the connection failed for valid arguments
C10_Witness ==
    /\ error = "WorkerInterrupt"
    /\ pc = "failed"
    /\ args.rate \in DOMAIN RATES /\ args.gain \in DOMAIN GAINS

\* C11: update() on an empty buffer sets no output, raises nothing and leaves
\* the buffer as it is; an update() that found data leaves the buffer empty;
\* the buffer grows only by an append of the background thread.  Hence the
\* second of two update() calls with no append in between sets no output.
C11_SecondDrainEmpty ==
    [][/\ (pc = "update" /\ _rows = << >>) =>
             /\ pc' \in {"update", "ready"}
             /\ output' = output
             /\ _rows' = << >> /\ _timestamps' = << >>
       /\ (pc = "update" /\ pc' = "ready" /\ _rows # << >>) =>
             /\ Len(output') = Len(output) + 1
             /\ _rows' = << >> /\ _timestamps' = << >>
       /\ (_rows' # _rows /\ _rows' # << >>) => pcL = "add_rows"]_vars

\* update() runs on an empty buffer after an earlier update() handed a
\* batch over, and the background thread has appended nothing since
C11_Witness ==
    /\ pc = "update"
    /\ output # << >>
    /\ _rows = << >> /\ _timestamps = << >>
    /\ Len(Flat(output, "rows")) = Len(decoded)

\* C12: the background thread holds the buffer lock only around its two
\* appends, never while it is blocked in the receive; so whenever a call of
\* update() finds the lock taken, the holder is in the middle of an append.
C12_LockOnlyAroundAppends ==
    (_lock /\ pc = "ready") => (LoopHolds /\ pcL # "recv")

\* update() got the lock at once while the background thread sits in the
\* receive with samples already buffered
C12_Witness ==
    /\ pcL = "recv"
    /\ pc = "update"
    /\ _lock
    /\ _rows # << >>

\* width of a row: the 8 channels, after the device timestamp and the counter
\* in debug mode
Width == CHANNELS + (IF args.debug THEN 2 ELSE 0)

\* C13: every row the loop builds, the buffer holds or the output receives
\* has 8 columns, or 10 in debug mode with the device timestamp and the
\* counter first, and that width is the length of the names handed to the
\* output with it, for every frame length (a short trailing block included)
\* and every names argument.
C13_RowWidthMatchesNames ==
    /\ \A i \in 1..Len(decoded) :
          /\ Len(decoded[i].row) = Width
          /\ args.debug => /\ decoded[i].row[1] = decoded[i].device
                           /\ decoded[i].row[2] = decoded[i].counter
    /\ \A i \in 1..Len(_rows) : Len(_rows[i]) = Width /\ Len(names) = Width
    /\ \A k \in 1..Len(output) :
          \A i \in 1..Len(output[k].rows) :
             Len(output[k].rows[i]) = Len(output[k].names)

\* a debug-mode batch reached the output, built from a frame whose last block
\* was cut short, for a names argument of the wrong length
C13_Witness ==
    /\ output # << >>
    /\ args.debug
    /\ args.names = <<"A", "B", "C">>
    /\ frames # << >> /\ frames[1].len % block_size # 0

\* the raw code of channel c (from 0) in a row built by _read
RawCode(row, c) == row[(IF args.debug THEN 2 ELSE 0) + c + 1].sample

\* C14: for every complete 32-byte block of the frame being decoded, the raw
\* code of channel c is the big-endian two's-complement value of bytes
\* [8+3c, 8+3c+3), which lies in [-8388608, 8388607], and the device
\* timestamp and the counter are the little-endian unsigned values of bytes
\* [0, 4) and [4, 8).
C14_WireDecoding ==
    pcL \in {"block", "return"} =>
       \A j \in 1..Len(rows) :
          LET b == SubSeq(data.payload, block_size * (j - 1) + 1,
                          Min(block_size * j, Len(data.payload)))
              s == decoded[Len(decoded) - Len(rows) + j]
          IN  Len(b) = block_size =>
                /\ s.row = rows[j]
                /\ s.device = b[1] + 256 * b[2] + 65536 * b[3] + 16777216 * b[4]
                /\ s.counter = b[5] + 256 * b[6] + 65536 * b[7] + 16777216 * b[8]
                /\ \A c \in 0..(CHANNELS - 1) :
                      LET hi == b[8 + 3 * c + 1]
                          mid == b[8 + 3 * c + 2]
                          lo == b[8 + 3 * c + 3]
                          code == RawCode(rows[j], c)
                      IN  /\ code = 65536 * hi + 256 * mid + lo
                                    - (IF hi >= 128 THEN 16777216 ELSE 0)
                          /\ code >= -8388608 /\ code <= 8388607

\* a frame was decoded whose second block is complete and carries both
\* extreme codes, a negative code, and a timestamp that needs two bytes
C14_Witness ==
    /\ pcL = "return"
    /\ Len(rows) >= 2
    /\ Len(data.payload) >= 2 * block_size
    /\ decoded[Len(decoded)].device > 255
    /\ \E c \in 0..(CHANNELS - 1) : RawCode(rows[2], c) = 8388607
    /\ \E c \in 0..(CHANNELS - 1) : RawCode(rows[2], c) = -8388608
    /\ \E c \in 0..(CHANNELS - 1) : RawCode(rows[2], c) = -1

\* sample i recalibrates: it is the first one, or the device timestamp did not
\* advance
Recalibrates(i) == i = 1 \/ decoded[i - 1].device >= decoded[i].device

\* C15: every emitted timestamp is the device timestamp plus the offset in
\* force, and last is the device timestamp of the latest sample; a sample
\* that does not recalibrate keeps the offset, so calibrated timestamps
\* differ as the device timestamps do, and a sample that recalibrates is
\* stamped with the host clock reading taken for it.
C15_CalibratedTimestamps ==
    /\ \A i \in 1..Len(decoded) :
          /\ decoded[i].timestamp = decoded[i].device + decoded[i].delta
          /\ Recalibrates(i) => decoded[i].timestamp = decoded[i].host
          /\ ~Recalibrates(i) =>
                decoded[i].timestamp - decoded[i - 1].timestamp
                   = decoded[i].device - decoded[i - 1].device
    /\ decoded # << >> =>
          /\ last = decoded[Len(decoded)].device
          /\ delta = <<decoded[Len(decoded)].delta>>

\* a later sample recalibrated after the host clock had advanced, and another
\* one kept the offset although the host clock had advanced
C15_Witness ==
    /\ \E i \in 2..Len(decoded) :
          Recalibrates(i) /\ decoded[i].host # decoded[1].host
    /\ \E j \in 2..Len(decoded) :
          ~Recalibrates(j) /\ decoded[j].timestamp # decoded[j].host

\* terminate() has set the stop flag of a started thread
Stopped == started /\ ~_running

\* C16: once the stop flag is set the thread enters no new receive, and
\* outside a pending receive it can always take its next step until it has
\* exited: it finishes the frame of the pending receive, appends it, reads the
\* flag and returns.
C16_ExitsAfterPendingReceive ==
    /\ (Stopped /\ IsAlive /\ pcL # "recv") => ENABLED LoopNext
    /\ (Stopped /\ pcL = "recv") => (data = None /\ ~ENABLED LoopNext)

\* C17: only a non-empty bytes or list message is decoded; for an empty
\* message or a text message the receive yields no samples, leaves the
\* buffer, the lock and the drift state (delta, last) as they are, and the
\* thread goes back to the test of the flag and the next receive without
\* passing by the lock.
C17_IgnoredMessages ==
    [][/\ (pcL = "recv" /\ pcL' = "block") =>
             (data'.payload # << >> /\ data'.type \in {"bytes", "list"})
       /\ (pcL = "recv" /\ ~(pcL' \in {"recv", "block", "dead"})) =>
             /\ pcL' = "while"
             /\ rows' = << >> /\ timestamps' = << >>
             /\ UNCHANGED <<_rows, _timestamps, _lock, delta, last, decoded, frames>>
      ]_vars

\* the thread is in the receive with samples buffered and the drift state
\* set, and an empty or a text message is about to arrive (the state after
\* such a message differs from this one by the position of the thread only)
C17_Witness ==
    /\ pcL = "recv"
    /\ _rows # << >>
    /\ delta # None /\ last > 0
    /\ ENABLED RecvOther

\* C18: update() releases the buffer lock on every path out of it, the path
\* where setting the output raises included: outside update() the lock is
\* held by the background thread around its appends or by nobody, so a thread
\* waiting for the lock waits for a running update() only.
C18_UpdateAlwaysReleases ==
    /\ (_lock /\ pc # "update") => LoopHolds
    /\ (pcL = "acquire" /\ pc # "update") => ENABLED Acquire

\* C19: a batch handed to the output is never changed afterwards, whatever
\* the background thread appends and whatever later calls of update() do:
\* update() gives the buffer new lists and leaves the lists it handed out.
C19_DrainedBatchFixed ==
    [][/\ Len(output') >= Len(output)
       /\ \A k \in 1..Len(output) : output'[k] = output[k]]_vars

\* after a first batch was handed over, the background thread appended to
\* the buffer again and a second batch was handed over
C19_Witness ==
    /\ Len(output) >= 2
    /\ output[1].rows # << >> /\ output[2].rows # << >>
    /\ output[1].rows # output[2].rows

====
